---- MODULE Spec2Model ----
(***************************************************************************)
(* WEB_14Poe: a contacts REST backend.  The state is the two database      *)
(* tables (users, contacts) and the tokens handed to the outside world.    *)
(* A route handler is an operator route_<name> from the tables and the     *)
(* request to the HTTP response and the tables it leaves, and an action    *)
(* that applies it.  In Spec the handlers run one request at a time; in    *)
(* SpecConc the refresh handler is split at its suspension points (the     *)
(* awaited SELECT and the awaited COMMIT) so that two requests interleave, *)
(* and in SpecSignup the signup handler is split in the same way.          *)
(*                                                                         *)
(* The wall clock is not part of the state.  A handler reads it once, to   *)
(* verify the token it was given: whether that token is past its expiry    *)
(* when the request is served is an input of the request.                  *)
(*                                                                         *)
(* src/services/auth.py (password hashing and the token service) is not    *)
(* among the available sources: its operators are modelled from sections   *)
(* 3, 4.1 and 4.2 of the specification.                                    *)
(***************************************************************************)
EXTENDS Integers, Sequences, FiniteSets, TLC

\* ------------------------------------------------------------------ bounds
Emails == {"a@x.com", "b@x.com"}
Passwords == {"pw1", "pw2"}
\* the number of confirmation mails delivered
MaxMails == 2
\* the number of access/refresh token pairs minted
MaxSessions == 2
\* the number of contact rows ever inserted
MaxContacts == 2
\* the requests in flight in SpecConc and SpecSignup
Requests == {1, 2}
\* dates are day numbers; a year of the calendar has this many days
YearLen == 20

VARIABLES
    users,        \* table users: a set of rows
    contacts,     \* table contacts: a set of rows
    contact_seq,  \* the last primary key given to a contact
    issued,       \* every token handed to a caller or delivered by mail
    reqs,         \* SpecConc: the refresh requests in flight
    h_signup,     \* history: the password each email signed up with
    h_confirm,    \* history: the emails confirm answered "Email confirmed" for
    h_rotated,    \* history: the refresh tokens a successful refresh consumed
    h_latest      \* history: per email, the refresh token most recently returned

vars == <<users, contacts, contact_seq, issued, reqs,
          h_signup, h_confirm, h_rotated, h_latest>>

Histories == <<h_signup, h_confirm, h_rotated, h_latest>>

\* Python None / SQL NULL in a string field
None == "<None>"

\* ------------------------------------------------ Credential Hasher (4.1)
get_password_hash(password) == <<"hash", password>>

verify_password(password, digest) == digest = get_password_hash(password)

\* --------------------------------------------------- Token Service (4.2)
\* Python None in a token column or field
NoToken == [scope |-> "none", sub |-> "", iat |-> 0]
\* a string that is no token signed by this service
Garbage == [scope |-> "garbage", sub |-> "", iat |-> 0]

\* a confirmation token that verifies but whose subject has no row in the
\* users table (signed with the service's key for another database)
Stray == [scope |-> "email_token", sub |-> "c@x.com", iat |-> 1]

Scoped(scope, sub) == {t \in issued : t.scope = scope /\ t.sub = sub}

\* The claims of a signed token (section 3): scope, subject and issued-at, the
\* expiry being issued-at plus the lifetime of the scope.  Each mint yields a
\* fresh token (4.3): issued-at is kept as the rank of the token among those
\* of its scope and subject.
encode(scope, sub) ==
    [scope |-> scope, sub |-> sub, iat |-> Cardinality(Scoped(scope, sub)) + 1]

create_access_token(sub) == encode("access_token", sub)

create_refresh_token(sub) == encode("refresh_token", sub)

create_email_token(sub) == encode("email_token", sub)

\* signature and expiry verification
jwt_verified(token, expired) ==
    /\ token.scope \in {"access_token", "refresh_token", "email_token"}
    /\ ~expired

Raise400 == "HTTP_400"
Raise401 == "HTTP_401"

decode_refresh_token(token, expired) ==
    IF jwt_verified(token, expired) /\ token.scope = "refresh_token"
    THEN token.sub ELSE Raise401

get_email_from_token(token, expired) ==
    IF jwt_verified(token, expired) THEN token.sub ELSE Raise400

\* ------------------------------------------------------ repository/users
NoUser == [id |-> 0, email |-> "", password |-> <<>>, avatar |-> "",
           refresh_token |-> NoToken, confirmed |-> FALSE]

get_user_by_email(table, email) ==
    IF \E u \in table : u.email = email
    THEN CHOOSE u \in table : u.email = email
    ELSE NoUser

\* faulty variant: the row is created already confirmed
create_user_confirmed(table, email, hashed) ==
    table \cup {[id |-> Cardinality(table) + 1, email |-> email,
                 password |-> hashed, avatar |-> "gravatar",
                 refresh_token |-> NoToken, confirmed |-> TRUE]}

create_user(table, email, hashed) ==
    table \cup {[id |-> Cardinality(table) + 1, email |-> email,
                 password |-> hashed, avatar |-> "gravatar",
                 refresh_token |-> NoToken, confirmed |-> FALSE]}

\* faulty variant: a None token is not written
update_token_never_clears(table, user, token) ==
    IF token \in {user.refresh_token, NoToken} THEN table
    ELSE {IF u.id = user.id THEN [u EXCEPT !.refresh_token = token] ELSE u
          : u \in table}

\* faulty variant: clearing the token deletes the row
update_token_deletes_row(table, user, token) ==
    IF token = user.refresh_token THEN table
    ELSE IF token = NoToken THEN {u \in table : u.id # user.id}
    ELSE {IF u.id = user.id THEN [u EXCEPT !.refresh_token = token] ELSE u
          : u \in table}

\* user is the row as the session loaded it; the commit writes the column
\* only when the assignment changed the loaded value
update_token(table, user, token) ==
    IF token = user.refresh_token THEN table
    ELSE {IF u.id = user.id THEN [u EXCEPT !.refresh_token = token] ELSE u
          : u \in table}

confirmed_email(table, email) ==
    LET user == get_user_by_email(table, email)
    IN  {IF u.id = user.id THEN [u EXCEPT !.confirmed = TRUE] ELSE u
         : u \in table}

\* faulty variant: the avatar update writes the row back without its token
update_avatar_drops_token(table, email, url) ==
    LET user == get_user_by_email(table, email)
    IN  {IF u.id = user.id
         THEN [u EXCEPT !.avatar = url, !.refresh_token = NoToken] ELSE u
         : u \in table}

update_avatar(table, email, url) ==
    LET user == get_user_by_email(table, email)
    IN  {IF u.id = user.id THEN [u EXCEPT !.avatar = url] ELSE u : u \in table}

\* services/auth get_current_user (4.2): the user of a valid access token;
\* NoUser stands for the 401 it raises
get_current_user(token, expired) ==
    IF jwt_verified(token, expired) /\ token.scope = "access_token"
    THEN get_user_by_email(users, token.sub) ELSE NoUser

\* ------------------------------------------------------------ routes/auth
\* send_email as a background task: a confirmation token is minted and, when
\* the mail gets through, reaches the mailbox; a failure is swallowed
send_email(email, delivered) ==
    IF delivered THEN issued \cup {create_email_token(email)} ELSE issued

\* the bounds on what is minted
MayMail(delivered) ==
    delivered => Cardinality({t \in issued : t.scope = "email_token"}) < MaxMails

MayMint == Cardinality({t \in issued : t.scope = "refresh_token"}) < MaxSessions

\* faulty variant: signup without the lookup of an existing account
route_signup_no_lookup(email, password) ==
    [status |-> 201, detail |-> email,
     users |-> create_user(users, email, get_password_hash(password))]

route_signup(email, password) ==
    LET exist_user == get_user_by_email(users, email)
    IN  IF exist_user # NoUser
        THEN [status |-> 409, detail |-> "ACCOUNT_EXIST", users |-> users]
        ELSE [status |-> 201, detail |-> email,
              users |-> create_user(users, email, get_password_hash(password))]

Signup(email, password, delivered) ==
    LET r == route_signup(email, password)
    IN  /\ users' = r.users
        /\ IF r.status = 201
           THEN /\ MayMail(delivered)
                /\ issued' = send_email(email, delivered)
                /\ h_signup' = [h_signup EXCEPT ![email] = password]
           ELSE UNCHANGED <<issued, h_signup>>
        /\ UNCHANGED <<contacts, contact_seq, reqs, h_confirm, h_rotated, h_latest>>

\* faulty variant: login without the confirmation gate
login_check_ungated(user, password) ==
    IF user = NoUser THEN "Invalid email"
    ELSE IF ~verify_password(password, user.password) THEN "Invalid password"
    ELSE "ok"

\* faulty variant: login without the password verification
login_check_unverified(user, password) ==
    IF user = NoUser THEN "Invalid email"
    ELSE IF ~user.confirmed THEN "Email is not confirmed"
    ELSE "ok"

\* the branch login takes
login_check(user, password) ==
    IF user = NoUser THEN "Invalid email"
    ELSE IF ~user.confirmed THEN "Email is not confirmed"
    ELSE IF ~verify_password(password, user.password) THEN "Invalid password"
    ELSE "ok"

route_login(email, password) ==
    LET user == get_user_by_email(users, email)
        why == login_check(user, password)
        minted == create_refresh_token(user.email)
    IN  IF why # "ok"
        THEN [status |-> 401, detail |-> why, access_token |-> NoToken,
              refresh_token |-> NoToken, users |-> users]
        ELSE [status |-> 200, detail |-> "bearer",
              access_token |-> create_access_token(user.email),
              refresh_token |-> minted,
              users |-> update_token(users, user, minted)]

Login(email, password) ==
    LET r == route_login(email, password)
    IN  /\ users' = r.users
        /\ IF r.status = 200
           THEN /\ MayMint
                /\ issued' = issued \cup {r.access_token, r.refresh_token}
                /\ h_latest' = [h_latest EXCEPT ![email] = r.refresh_token]
           ELSE UNCHANGED <<issued, h_latest>>
        /\ UNCHANGED <<contacts, contact_seq, reqs, h_signup, h_confirm, h_rotated>>

\* faulty variant: any refresh token of the user passes, stored or not
refresh_check_unstored(user, token) ==
    IF user = NoUser THEN "AttributeError" ELSE "ok"

\* the branch refresh_token takes once the token is decoded and the user loaded
refresh_check(user, token) ==
    IF user = NoUser THEN "AttributeError"
    ELSE IF user.refresh_token # token THEN "Invalid refresh token"
    ELSE "ok"

route_refresh_token(token, expired) ==
    LET email == decode_refresh_token(token, expired)
        user == get_user_by_email(users, email)
        why == IF email = Raise401 THEN "Could not validate credentials"
               ELSE refresh_check(user, token)
        minted == create_refresh_token(email)
        failed(status, table) ==
            [status |-> status, detail |-> why, email |-> email,
             access_token |-> NoToken, refresh_token |-> NoToken, users |-> table]
    IN  CASE why = "Could not validate credentials" -> failed(401, users)
          [] why = "AttributeError" -> failed(500, users)
          [] why = "Invalid refresh token" ->
                failed(401, update_token(users, user, NoToken))
          [] why = "ok" ->
                [status |-> 200, detail |-> "bearer", email |-> email,
                 access_token |-> create_access_token(email),
                 refresh_token |-> minted,
                 users |-> update_token(users, user, minted)]

RefreshToken(token, expired) ==
    LET r == route_refresh_token(token, expired)
    IN  /\ users' = r.users
        /\ CASE r.status = 200 ->
                /\ MayMint
                /\ issued' = issued \cup {r.access_token, r.refresh_token}
                /\ h_rotated' = h_rotated \cup {token}
                /\ h_latest' = [h_latest EXCEPT ![r.email] = r.refresh_token]
             [] r.detail = "Invalid refresh token" ->
                /\ h_latest' = [h_latest EXCEPT ![r.email] = NoToken]
                /\ UNCHANGED <<issued, h_rotated>>
             [] OTHER -> UNCHANGED <<issued, h_rotated, h_latest>>
        /\ UNCHANGED <<contacts, contact_seq, reqs, h_signup, h_confirm>>

\* faulty variant: confirm without the test of the flag
confirm_check_untested(user) ==
    IF user = NoUser THEN "Verification error" ELSE "Email confirmed"

\* faulty variant: confirm without the test for a missing user
confirm_check_unguarded(user) ==
    IF user.confirmed THEN "Your email is already confirmed" ELSE "Email confirmed"

\* the branch confirmed_email takes once the token is decoded and the user loaded
confirm_check(user) ==
    IF user = NoUser THEN "Verification error"
    ELSE IF user.confirmed THEN "Your email is already confirmed"
    ELSE "Email confirmed"

route_confirmed_email(token, expired) ==
    LET email == get_email_from_token(token, expired)
        user == get_user_by_email(users, email)
        why == IF email = Raise400 THEN "Invalid token" ELSE confirm_check(user)
    IN  [status |-> IF why \in {"Invalid token", "Verification error"}
                    THEN 400 ELSE 200,
         detail |-> why, email |-> email,
         users |-> IF why = "Email confirmed"
                   THEN confirmed_email(users, email) ELSE users]

ConfirmedEmail(token, expired) ==
    LET r == route_confirmed_email(token, expired)
    IN  /\ users' = r.users
        /\ h_confirm' = IF r.detail = "Email confirmed"
                        THEN h_confirm \cup {r.email} ELSE h_confirm
        /\ UNCHANGED <<contacts, contact_seq, issued, reqs, h_signup, h_rotated,
                       h_latest>>

\* the branch request_email takes: user.confirmed is read before user is tested
request_check(user) ==
    IF user = NoUser THEN "AttributeError"
    ELSE IF user.confirmed THEN "Your email is already confirmed"
    ELSE "Check your email for confirmation."

\* faulty variant: the mail is scheduled for a confirmed user as well
route_request_email_mails_confirmed(email) ==
    LET user == get_user_by_email(users, email)
        why == request_check(user)
    IN  [status |-> IF why = "AttributeError" THEN 500 ELSE 200,
         detail |-> why,
         mailed |-> why # "AttributeError"]

\* mailed: whether send_email is scheduled
route_request_email(email) ==
    LET user == get_user_by_email(users, email)
        why == request_check(user)
    IN  [status |-> IF why = "AttributeError" THEN 500 ELSE 200,
         detail |-> why,
         mailed |-> why = "Check your email for confirmation."]

RequestEmail(email, delivered) ==
    LET r == route_request_email(email)
    IN  /\ r.mailed => MayMail(delivered)
        /\ issued' = IF r.mailed THEN send_email(email, delivered) ELSE issued
        /\ UNCHANGED <<users, contacts, contact_seq, reqs, Histories>>

\* ----------------------------------------------------------- routes/users
\* uploaded: whether the upload to the image host went through
route_update_avatar_user(token, expired, uploaded) ==
    LET user == get_current_user(token, expired)
    IN  CASE user = NoUser ->
                [status |-> 401, detail |-> "Could not validate credentials",
                 users |-> users]
          [] user # NoUser /\ ~uploaded ->
                [status |-> 500, detail |-> "cloudinary", users |-> users]
          [] user # NoUser /\ uploaded ->
                [status |-> 200, detail |-> user.email,
                 users |-> update_avatar(users, user.email, "cloudinary")]

UpdateAvatarUser(token, expired, uploaded) ==
    /\ users' = route_update_avatar_user(token, expired, uploaded).users
    /\ UNCHANGED <<contacts, contact_seq, issued, reqs, Histories>>

\* --------------------------------------------------------- schemas/contact
\* request bodies that pass schema validation; birthday is a day number
CreateBodies ==
    { [firstname |-> "Ann", surname |-> "Lee", email |-> "ann@x.com",
       phone |-> "11111", birthday |-> 3, details |-> None],
      [firstname |-> "Bob", surname |-> "Ray", email |-> "bob@x.com",
       phone |-> "22222", birthday |-> 12, details |-> "friend"] }

\* ContactUpdateSchema: every field but birthday may be left unset (None)
UpdateBodies ==
    { [firstname |-> "Cyd", surname |-> "Orr", email |-> "cyd@x.com",
       phone |-> "33333", birthday |-> 5, details |-> "moved"],
      [firstname |-> None, surname |-> None, email |-> None,
       phone |-> None, birthday |-> 3, details |-> None] }

Queries == {"ann", "RAY", "%"}
Limits == {1, 2}
Offsets == {0, 1}
\* the day a request is served: two in the year of the birthdays, one a year on
Todays == {1, 10, YearLen + 1}
ContactIds == 1 .. (MaxContacts + 1)

\* --------------------------------------------------- repository/contacts
NoContact == [id |-> 0, user_id |-> 0, firstname |-> None, surname |-> None,
              email |-> None, phone |-> None, birthday |-> 0, details |-> None]

Lower(str) ==
    CASE str = "Ann" -> "ann" [] str = "Lee" -> "lee" [] str = "Bob" -> "bob"
      [] str = "Ray" -> "ray" [] str = "RAY" -> "ray" [] str = "Cyd" -> "cyd"
      [] str = "Orr" -> "orr" [] OTHER -> str

\* column ILIKE pattern: case-insensitive, % matches anything, NULL never matches
ilike(value, pattern) ==
    value # None /\ (pattern = "%" \/ Lower(value) = Lower(pattern))

\* filter_by(user=user)
filter_by_user(table, user) == {c \in table : c.user_id = user.id}

get_contacts(table, limit, offset, user) ==
    LET mine == filter_by_user(table, user)
        row(c) == Cardinality({d \in mine : d.id < c.id})
    IN  {c \in mine : offset <= row(c) /\ row(c) < offset + limit}

search_contacts(table, query, user) ==
    {c \in filter_by_user(table, user) :
        ilike(c.firstname, query) \/ ilike(c.surname, query) \/ ilike(c.email, query)}

\* faulty variant: the contact is looked up by id alone
get_contact_unowned(table, contact_id, user) ==
    LET found == {c \in table : c.id = contact_id}
    IN  IF found = {} THEN NoContact ELSE CHOOSE c \in found : TRUE

get_contact(table, contact_id, user) ==
    LET found == {c \in filter_by_user(table, user) : c.id = contact_id}
    IN  IF found = {} THEN NoContact ELSE CHOOSE c \in found : TRUE

new_contact(seq, body, user) ==
    [id |-> seq + 1, user_id |-> user.id, firstname |-> body.firstname,
     surname |-> body.surname, email |-> body.email, phone |-> body.phone,
     birthday |-> body.birthday, details |-> body.details]

create_contact(table, seq, body, user) == table \cup {new_contact(seq, body, user)}

\* the row update_contact writes
updated_contact(contact, body) ==
    [contact EXCEPT !.firstname = body.firstname, !.surname = body.surname,
                    !.email = body.email, !.phone = body.phone,
                    !.birthday = body.birthday, !.details = body.details]

\* database/models Contact: every column but details is NOT NULL
not_null(row) ==
    /\ row.firstname # None
    /\ row.surname # None
    /\ row.email # None
    /\ row.phone # None

update_contact(table, contact_id, body, user) ==
    LET contact == get_contact(table, contact_id, user)
    IN  IF contact = NoContact THEN table
        ELSE (table \ {contact}) \cup {updated_contact(contact, body)}

delete_contact(table, contact_id, user) ==
    table \ {get_contact(table, contact_id, user)}

get_upcoming_birthdays(table, today, user) ==
    {c \in filter_by_user(table, user) :
        c.birthday >= today /\ c.birthday <= today + 7}

\* -------------------------------------------------------- routes/contacts
\* A response: status, the contacts in its body, and the table it leaves.
Response(status, body, table) ==
    [status |-> status, body |-> body, contacts |-> table]

route_get_upcoming_birthdays(token, expired, today) ==
    LET user == get_current_user(token, expired)
    IN  IF user = NoUser THEN Response(401, {}, contacts)
        ELSE Response(200, get_upcoming_birthdays(contacts, today, user), contacts)

route_get_contacts(token, expired, limit, offset) ==
    LET user == get_current_user(token, expired)
    IN  IF user = NoUser THEN Response(401, {}, contacts)
        ELSE Response(200, get_contacts(contacts, limit, offset, user), contacts)

route_get_contact(token, expired, contact_id) ==
    LET user == get_current_user(token, expired)
        contact == get_contact(contacts, contact_id, user)
    IN  IF user = NoUser THEN Response(401, {}, contacts)
        ELSE IF contact = NoContact THEN Response(404, {}, contacts)
        ELSE Response(200, {contact}, contacts)

route_search_contacts(token, expired, query) ==
    LET user == get_current_user(token, expired)
    IN  IF user = NoUser THEN Response(401, {}, contacts)
        ELSE Response(200, search_contacts(contacts, query, user), contacts)

\* limited: whether the rate limiter (5 requests per 60 s) refuses the request
route_create_contact(token, expired, body, limited) ==
    LET user == get_current_user(token, expired)
    IN  IF limited THEN Response(429, {}, contacts)
        ELSE IF user = NoUser THEN Response(401, {}, contacts)
        ELSE Response(201, {new_contact(contact_seq, body, user)},
                      create_contact(contacts, contact_seq, body, user))

route_update_contact(token, expired, contact_id, body) ==
    LET user == get_current_user(token, expired)
        contact == get_contact(contacts, contact_id, user)
    IN  IF user = NoUser THEN Response(401, {}, contacts)
        ELSE IF contact = NoContact THEN Response(404, {}, contacts)
        ELSE IF ~not_null(updated_contact(contact, body))
        THEN Response(500, {}, contacts)
        ELSE Response(200, {updated_contact(contact, body)},
                      update_contact(contacts, contact_id, body, user))

route_delete_contact(token, expired, contact_id) ==
    LET user == get_current_user(token, expired)
    IN  IF user = NoUser THEN Response(401, {}, contacts)
        ELSE Response(204, {}, delete_contact(contacts, contact_id, user))

AuthFrame == UNCHANGED <<users, issued, reqs, Histories>>

GetUpcomingBirthdays(token, expired, today) ==
    /\ contacts' = route_get_upcoming_birthdays(token, expired, today).contacts
    /\ UNCHANGED contact_seq /\ AuthFrame

GetContacts(token, expired, limit, offset) ==
    /\ contacts' = route_get_contacts(token, expired, limit, offset).contacts
    /\ UNCHANGED contact_seq /\ AuthFrame

GetContact(token, expired, contact_id) ==
    /\ contacts' = route_get_contact(token, expired, contact_id).contacts
    /\ UNCHANGED contact_seq /\ AuthFrame

SearchContacts(token, expired, query) ==
    /\ contacts' = route_search_contacts(token, expired, query).contacts
    /\ UNCHANGED contact_seq /\ AuthFrame

CreateContact(token, expired, body, limited) ==
    LET r == route_create_contact(token, expired, body, limited)
    IN  /\ r.status = 201 => contact_seq < MaxContacts
        /\ contacts' = r.contacts
        /\ contact_seq' = IF r.status = 201 THEN contact_seq + 1 ELSE contact_seq
        /\ AuthFrame

UpdateContact(token, expired, contact_id, body) ==
    /\ contacts' = route_update_contact(token, expired, contact_id, body).contacts
    /\ UNCHANGED contact_seq /\ AuthFrame

DeleteContact(token, expired, contact_id) ==
    /\ contacts' = route_delete_contact(token, expired, contact_id).contacts
    /\ UNCHANGED contact_seq /\ AuthFrame

\* ------------------------------------------- refresh_token, interleaved
\* A refresh request in flight: where it stands, the token it presented, the
\* user row its session loaded and, once done, its status.
IdleRequest == [pc |-> "idle", token |-> NoToken, user |-> NoUser, status |-> 0]

\* up to the first suspension: the token is decoded and the user row SELECTed
RefreshSelect(r, token, expired) ==
    /\ reqs[r].pc = "idle"
    /\ LET email == decode_refresh_token(token, expired)
       IN  reqs' = [reqs EXCEPT ![r] =
                IF email = Raise401
                THEN [pc |-> "done", token |-> token, user |-> NoUser,
                      status |-> 401]
                ELSE [pc |-> "loaded", token |-> token,
                      user |-> get_user_by_email(users, email), status |-> 0]]
    /\ UNCHANGED <<users, contacts, contact_seq, issued, Histories>>

\* from the comparison with the loaded row to the COMMIT and the response
RefreshCommit(r) ==
    /\ reqs[r].pc = "loaded"
    /\ LET user == reqs[r].user
           token == reqs[r].token
           why == refresh_check(user, token)
           minted == create_refresh_token(token.sub)
           done(status) == [reqs EXCEPT ![r].pc = "done", ![r].status = status]
       IN  CASE why = "AttributeError" ->
                /\ reqs' = done(500)
                /\ UNCHANGED <<users, issued, h_rotated, h_latest>>
             [] why = "Invalid refresh token" ->
                /\ users' = update_token(users, user, NoToken)
                /\ reqs' = done(401)
                /\ h_latest' = [h_latest EXCEPT ![token.sub] = NoToken]
                /\ UNCHANGED <<issued, h_rotated>>
             [] why = "ok" ->
                /\ users' = update_token(users, user, minted)
                /\ issued' = issued \cup {create_access_token(token.sub), minted}
                /\ reqs' = done(200)
                /\ h_rotated' = h_rotated \cup {token}
                /\ h_latest' = [h_latest EXCEPT ![token.sub] = minted]
    /\ UNCHANGED <<contacts, contact_seq, h_signup, h_confirm>>

\* ------------------------------------------------- signup, interleaved
\* database/models User.email: unique=True
unique_email(table, email) == \A u \in table : u.email # email

\* the User object signup is about to insert: the body with the password hashed
pending_user(email, password) ==
    [NoUser EXCEPT !.email = email, !.password = get_password_hash(password)]

\* up to the first suspension: the lookup of an existing account
SignupSelect(r, email, password) ==
    /\ reqs[r].pc = "idle"
    /\ LET exist_user == get_user_by_email(users, email)
       IN  reqs' = [reqs EXCEPT ![r] =
                [pc |-> IF exist_user # NoUser THEN "done" ELSE "checked",
                 token |-> NoToken, user |-> pending_user(email, password),
                 status |-> IF exist_user # NoUser THEN 409 ELSE 0]]
    /\ UNCHANGED <<users, contacts, contact_seq, issued, Histories>>

\* create_user's INSERT and COMMIT, then the mail and the response; the
\* commit raises IntegrityError when the email has got a row meanwhile
SignupCommit(r, delivered) ==
    /\ reqs[r].pc = "checked"
    /\ LET new_user == reqs[r].user
           done(status) == [reqs EXCEPT ![r].pc = "done", ![r].status = status]
       IN  IF unique_email(users, new_user.email)
           THEN /\ MayMail(delivered)
                /\ users' = create_user(users, new_user.email, new_user.password)
                /\ issued' = send_email(new_user.email, delivered)
                /\ h_signup' = [h_signup EXCEPT ![new_user.email] = new_user.password[2]]
                /\ reqs' = done(201)
           ELSE /\ reqs' = done(500)
                /\ UNCHANGED <<users, issued, h_signup>>
    /\ UNCHANGED <<contacts, contact_seq, h_confirm, h_rotated, h_latest>>

\* ------------------------------------------------------------ the system
\* what a client can present: a token it was given, or a string that is none
Presentable == issued \cup {Garbage, Stray}

Init ==
    /\ users = {}
    /\ contacts = {}
    /\ contact_seq = 0
    /\ issued = {}
    /\ reqs = [r \in Requests |-> IdleRequest]
    /\ h_signup = [e \in Emails |-> ""]
    /\ h_confirm = {}
    /\ h_rotated = {}
    /\ h_latest = [e \in Emails |-> NoToken]

Next ==
    \/ \E e \in Emails, p \in Passwords, d \in BOOLEAN : Signup(e, p, d)
    \/ \E e \in Emails, p \in Passwords : Login(e, p)
    \/ \E t \in Presentable, x \in BOOLEAN : RefreshToken(t, x)
    \/ \E t \in Presentable, x \in BOOLEAN : ConfirmedEmail(t, x)
    \/ \E e \in Emails, d \in BOOLEAN : RequestEmail(e, d)
    \/ \E t \in Presentable, x, up \in BOOLEAN : UpdateAvatarUser(t, x, up)
    \/ \E t \in Presentable, x \in BOOLEAN, d \in Todays : GetUpcomingBirthdays(t, x, d)
    \/ \E t \in Presentable, x \in BOOLEAN, l \in Limits, o \in Offsets :
            GetContacts(t, x, l, o)
    \/ \E t \in Presentable, x \in BOOLEAN, i \in ContactIds : GetContact(t, x, i)
    \/ \E t \in Presentable, x \in BOOLEAN, q \in Queries : SearchContacts(t, x, q)
    \/ \E t \in Presentable, x, l \in BOOLEAN, b \in CreateBodies :
            CreateContact(t, x, b, l)
    \/ \E t \in Presentable, x \in BOOLEAN, i \in ContactIds, b \in UpdateBodies :
            UpdateContact(t, x, i, b)
    \/ \E t \in Presentable, x \in BOOLEAN, i \in ContactIds : DeleteContact(t, x, i)

Spec == Init /\ [][Next]_vars

NextConc ==
    \/ \E e \in Emails, p \in Passwords, d \in BOOLEAN : Signup(e, p, d)
    \/ \E t \in Presentable, x \in BOOLEAN : ConfirmedEmail(t, x)
    \/ \E e \in Emails, p \in Passwords : Login(e, p)
    \/ \E r \in Requests, t \in Presentable, x \in BOOLEAN : RefreshSelect(r, t, x)
    \/ \E r \in Requests : RefreshCommit(r)

SpecConc == Init /\ [][NextConc]_vars

NextSignup ==
    \/ \E r \in Requests, e \in Emails, p \in Passwords : SignupSelect(r, e, p)
    \/ \E r \in Requests, d \in BOOLEAN : SignupCommit(r, d)
    \/ \E t \in Presentable, x \in BOOLEAN : ConfirmedEmail(t, x)
    \/ \E e \in Emails, p \in Passwords : Login(e, p)

SpecSignup == Init /\ [][NextSignup]_vars

\* ================================================================ claims
UserOf(email) == get_user_by_email(users, email)

SignedUp == {e \in Emails : h_signup[e] # ""}

\* C1: once an email has signed up, login with the password it signed up
\* with answers 401 as long as confirm has not succeeded for it, and 200 with
\* an access token and a refresh token once confirm has succeeded.
C1_LoginAfterConfirm ==
    \A e \in SignedUp :
        LET r == route_login(e, h_signup[e])
        IN  IF e \in h_confirm
            THEN /\ r.status = 200
                 /\ r.access_token.scope = "access_token"
                 /\ r.refresh_token.scope = "refresh_token"
            ELSE r.status = 401

C1_Witness ==
    \E e, f \in SignedUp :
        /\ e \in h_confirm /\ h_latest[e] # NoToken
        /\ f \notin h_confirm

\* the stored refresh token of every user
StoredTokens(table) == {<<u.email, u.refresh_token>> : u \in table}

\* C2: login with a password other than the one the email signed up with
\* answers 401 and leaves every user's stored refresh token as it was.
C2_WrongPassword ==
    \A e \in Emails, p \in Passwords :
        p # h_signup[e] =>
            LET r == route_login(e, p)
            IN  /\ r.status = 401
                /\ StoredTokens(r.users) = StoredTokens(users)

C2_Witness ==
    \E e \in SignedUp, f \in SignedUp, p \in Passwords :
        /\ p # h_signup[e]
        /\ UserOf(e).confirmed /\ UserOf(e).refresh_token # NoToken
        /\ ~UserOf(f).confirmed

\* C3 as stated: a token a successful refresh has consumed, presented again,
\* is answered 401 and the stored refresh token of its user is cleared.
C3_ReplayClears ==
    \A t \in h_rotated, x \in BOOLEAN :
        LET r == route_refresh_token(t, x)
        IN  /\ r.status = 401
            /\ get_user_by_email(r.users, t.sub).refresh_token = NoToken

\* C3 amended: a consumed token presented again is answered 401; while it has
\* not expired the stored refresh token of its user is cleared, and once it
\* has expired the users table is left as it is.  With the stored token
\* cleared, no token of that user is accepted.
C3_ReplayClearsUnexpired ==
    /\ \A t \in h_rotated, x \in BOOLEAN :
        LET r == route_refresh_token(t, x)
        IN  /\ r.status = 401
            /\ ~x => get_user_by_email(r.users, t.sub).refresh_token = NoToken
            /\ x => r.users = users
    /\ \A t \in Presentable, x \in BOOLEAN :
        UserOf(t.sub).refresh_token = NoToken => route_refresh_token(t, x).status = 401

C3_Witness ==
    \E t \in h_rotated :
        /\ UserOf(t.sub).refresh_token = NoToken
        /\ \E t2 \in issued : t2.scope = "refresh_token" /\ t2.sub = t.sub /\ t2 # t

\* the refresh tokens of an email that refresh answers 200 for
Accepted(e, expired) ==
    {t \in Presentable : t.sub = e /\ route_refresh_token(t, expired).status = 200}

\* C4 as stated: for an email whose last login or refresh succeeded, refresh
\* accepts exactly the refresh token that operation returned.
C4_ExactlyLatest ==
    \A e \in Emails, x \in BOOLEAN :
        h_latest[e] # NoToken => Accepted(e, x) = {h_latest[e]}

\* C4 amended: refresh accepts at most one refresh token per email, the one
\* the most recent successful login or refresh returned, and accepts that one
\* exactly as long as it has not expired; every earlier token is rejected.
C4_AtMostLatest ==
    \A e \in Emails :
        /\ Accepted(e, TRUE) = {}
        /\ Accepted(e, FALSE) = {h_latest[e]} \ {NoToken}

C4_Witness ==
    \E e \in Emails, t \in issued :
        /\ h_latest[e] # NoToken
        /\ t.scope = "refresh_token" /\ t.sub = e /\ t # h_latest[e]

\* C5: confirm with a token that verifies, for a user confirm has already
\* succeeded for, answers 200 "already confirmed" and leaves the users table
\* as it is.
C5_ConfirmIdempotent ==
    \A t \in Presentable :
        LET r == route_confirmed_email(t, FALSE)
        IN  (jwt_verified(t, FALSE) /\ t.sub \in h_confirm) =>
                /\ r.status = 200
                /\ r.detail = "Your email is already confirmed"
                /\ r.users = users

C5_Witness ==
    \E t \in issued :
        /\ t.scope = "email_token" /\ t.sub \in h_confirm
        /\ UserOf(t.sub).refresh_token # NoToken

\* C6: two refresh requests that presented the same refresh token, each
\* having loaded the user while that token was the stored one, are never
\* both answered 200.
C6_NoDoubleRefresh ==
    \A r1, r2 \in Requests :
        (/\ r1 # r2
         /\ reqs[r1].token = reqs[r2].token
         /\ reqs[r1].user.refresh_token = reqs[r1].token
         /\ reqs[r2].user.refresh_token = reqs[r2].token
         /\ reqs[r1].pc = "done" /\ reqs[r2].pc = "done")
        => ~(reqs[r1].status = 200 /\ reqs[r2].status = 200)

\* C7: signup with an email that has a user answers 409 and leaves the users
\* table as it is; with an email that has none it answers 201 and adds one
\* row, for that email, unconfirmed and without a stored refresh token.
C7_Signup ==
    \A e \in Emails, p \in Passwords :
        LET r == route_signup(e, p)
        IN  IF UserOf(e) # NoUser
            THEN r.status = 409 /\ r.users = users
            ELSE /\ r.status = 201
                 /\ users \subseteq r.users
                 /\ \E u \in r.users :
                        /\ r.users \ users = {u}
                        /\ u.email = e
                        /\ ~u.confirmed
                        /\ u.refresh_token = NoToken

C7_Witness ==
    /\ Cardinality(users) = 1
    /\ \E u \in users : u.confirmed /\ u.refresh_token # NoToken

\* the rows of a contacts table that user does not own
Foreign(table, user) == {c \in table : c.user_id # user.id}

\* C8: whatever an authenticated user asks of the contact routes, every
\* contact in the response is its own, the rows of the other users are left
\* as they are, and a created contact is its own.
C8_ContactsScoped ==
    \A t \in Presentable :
        LET user == get_current_user(t, FALSE)
            reads ==
                {route_get_upcoming_birthdays(t, FALSE, d) : d \in Todays}
                \cup {route_get_contacts(t, FALSE, l, o) : l \in Limits, o \in Offsets}
                \cup {route_get_contact(t, FALSE, i) : i \in ContactIds}
                \cup {route_search_contacts(t, FALSE, q) : q \in Queries}
            writes ==
                {route_update_contact(t, FALSE, i, b) : i \in ContactIds, b \in UpdateBodies}
                \cup {route_delete_contact(t, FALSE, i) : i \in ContactIds}
            creates == {route_create_contact(t, FALSE, b, FALSE) : b \in CreateBodies}
        IN  user # NoUser =>
            /\ \A r \in reads :
                /\ r.contacts = contacts
                /\ r.body \subseteq contacts \ Foreign(contacts, user)
            /\ \A r \in writes \cup creates :
                /\ Foreign(r.contacts, user) = Foreign(contacts, user)
                /\ \A c \in r.body : c.user_id = user.id
            /\ \A r \in creates :
                \E c \in r.contacts :
                    r.contacts \ contacts = {c} /\ c.user_id = user.id

C8_Witness ==
    \E t \in issued, c \in contacts, d \in contacts :
        /\ get_current_user(t, FALSE) # NoUser
        /\ c.user_id = get_current_user(t, FALSE).id
        /\ d.user_id # c.user_id

\* C9: a user is created unconfirmed, a confirmed user stays confirmed, and
\* the flag turns true only in a step of confirm that answers "Email
\* confirmed" for that user.
C9_ConfirmedFlag ==
    [][\A e \in Emails :
        LET before == get_user_by_email(users, e)
            after == get_user_by_email(users', e)
        IN  /\ before # NoUser => after # NoUser
            /\ before = NoUser /\ after # NoUser => ~after.confirmed
            /\ before # NoUser /\ before.confirmed => after.confirmed
            /\ before # NoUser /\ ~before.confirmed /\ after.confirmed =>
                \E t \in Presentable, x \in BOOLEAN :
                    /\ ConfirmedEmail(t, x)
                    /\ route_confirmed_email(t, x).detail = "Email confirmed"
                    /\ route_confirmed_email(t, x).email = e]_vars

C9_Witness ==
    \E u \in users, v \in users, c \in contacts :
        u.confirmed /\ u.avatar = "cloudinary" /\ ~v.confirmed

\* C10: request_email answers 200 for every email, whether or not it has a
\* user.
C10_RequestEmailAlways200 ==
    \A e \in Emails : route_request_email(e).status = 200

\* C11: delete_contact for an id the caller has no contact under (unknown, or
\* owned by another user) answers 404 and leaves the contacts table as it is.
C11_DeleteMissingNotFound ==
    \A t \in Presentable, i \in ContactIds :
        LET user == get_current_user(t, FALSE)
            r == route_delete_contact(t, FALSE, i)
        IN  (user # NoUser /\ get_contact(contacts, i, user) = NoContact) =>
                r.status = 404 /\ r.contacts = contacts

\* C12: update_contact on a contact of the caller answers with that contact,
\* its six fields those of the body (None where the body leaves one unset),
\* its id and owner as before, and stores it; for an id the caller has no
\* contact under it answers 404 and the contacts table is left as it is.
C12_UpdateWritesBody ==
    \A t \in Presentable, i \in ContactIds, b \in UpdateBodies :
        LET user == get_current_user(t, FALSE)
            old == get_contact(contacts, i, user)
            r == route_update_contact(t, FALSE, i, b)
            new == [id |-> old.id, user_id |-> old.user_id,
                    firstname |-> b.firstname, surname |-> b.surname,
                    email |-> b.email, phone |-> b.phone,
                    birthday |-> b.birthday, details |-> b.details]
        IN  user # NoUser =>
                IF old # NoContact
                THEN /\ r.status = 200
                     /\ r.body = {new}
                     /\ r.contacts = (contacts \ {old}) \cup {new}
                ELSE /\ r.status = 404
                     /\ r.contacts = contacts
                     /\ update_contact(contacts, i, b, user) = contacts

\* whether the birthday (its day of the year) comes round within today and
\* the seven days after it
BirthdayWithinWeek(birthday, today) ==
    \E k \in 0..7 : (today + k) % YearLen = birthday % YearLen

\* C13: get_upcoming_birthdays answers with exactly the caller's contacts
\* whose birthday falls within today and the next 7 days, whatever the year
\* of the stored date.
C13_UpcomingBirthdays ==
    \A t \in Presentable, d \in Todays :
        LET user == get_current_user(t, FALSE)
            r == route_get_upcoming_birthdays(t, FALSE, d)
        IN  user # NoUser =>
                /\ r.status = 200
                /\ r.body = {c \in contacts :
                                /\ c.user_id = user.id
                                /\ BirthdayWithinWeek(c.birthday, d)}

\* C14: confirm with a token that verifies but whose subject has no user
\* answers 400 and leaves the users table as it is.
C14_ConfirmUnknownSubject ==
    \A t \in Presentable :
        LET r == route_confirmed_email(t, FALSE)
        IN  (jwt_verified(t, FALSE) /\ UserOf(t.sub) = NoUser) =>
                r.status = 400 /\ r.users = users

C14_Witness ==
    /\ \E t \in Presentable : jwt_verified(t, FALSE) /\ UserOf(t.sub) = NoUser
    /\ \E u \in users : ~u.confirmed
    /\ \E u \in users : u.confirmed

\* C15: every confirmation token issued for a user who is still unconfirmed
\* confirms that user when presented unexpired, however many request_email
\* calls came after it; a request_email step leaves the users table as it is,
\* withdraws no token, and issues none for a confirmed user.
C15_ResendKeepsTokens ==
    /\ [](\A t \in issued :
            (t.scope = "email_token" /\ UserOf(t.sub) # NoUser
                /\ ~UserOf(t.sub).confirmed) =>
                LET r == route_confirmed_email(t, FALSE)
                IN  /\ r.status = 200
                    /\ r.detail = "Email confirmed"
                    /\ get_user_by_email(r.users, t.sub).confirmed)
    /\ [][\A e \in Emails, d \in BOOLEAN :
            RequestEmail(e, d) =>
                /\ users' = users
                /\ issued \subseteq issued'
                /\ UserOf(e).confirmed => issued' = issued]_vars

C15_Witness ==
    \E t1 \in issued, t2 \in issued :
        /\ t1.scope = "email_token" /\ t2.scope = "email_token"
        /\ t1 # t2 /\ t1.sub = t2.sub
        /\ ~UserOf(t1.sub).confirmed

\* the signup requests that have been answered
Answered == {r \in Requests : reqs[r].pc = "done"}

\* C16: no email has two user rows; every signup request, concurrent ones
\* included, is answered 201 or 409, and at most one of those for an email
\* is answered 201.
C16_SignupRace ==
    /\ \A e \in Emails : Cardinality({u \in users : u.email = e}) <= 1
    /\ \A r \in Answered : reqs[r].status \in {201, 409}
    /\ \A e \in Emails :
        Cardinality({r \in Answered :
                        reqs[r].user.email = e /\ reqs[r].status = 201}) <= 1

\* C17: the stored refresh token of a user is empty, or it is the refresh
\* token the latest successful login or refresh returned for that user's
\* email, and then the user is confirmed; only a step of login or of refresh
\* changes the stored refresh token of a user.
C17_StoredTokenOrigin ==
    /\ [](\A u \in users :
            \/ u.refresh_token = NoToken
            \/ /\ u.refresh_token \in issued
               /\ u.refresh_token.scope = "refresh_token"
               /\ u.refresh_token.sub = u.email
               /\ u.refresh_token = h_latest[u.email]
               /\ u.confirmed)
    /\ [][(\E u \in users :
            get_user_by_email(users', u.email).refresh_token # u.refresh_token)
          => \/ \E e \in Emails, p \in Passwords : Login(e, p)
             \/ \E t \in Presentable, x \in BOOLEAN : RefreshToken(t, x)]_vars

C17_Witness ==
    \E u \in users, v \in users :
        /\ u.refresh_token # NoToken /\ u.avatar = "cloudinary"
        /\ \E c \in contacts : c.user_id = u.id
        /\ ~v.confirmed

\* C18: a user row is never removed and never changes its email; the subject
\* of every refresh token minted has a user row, so refresh never meets a
\* missing user behind a token that decodes.
C18_RefreshSubjectExists ==
    /\ [](\A t \in issued :
            t.scope = "refresh_token" =>
                /\ UserOf(t.sub) # NoUser
                /\ \A x \in BOOLEAN :
                    route_refresh_token(t, x).detail # "AttributeError")
    /\ [](\A t \in Presentable, x \in BOOLEAN :
            decode_refresh_token(t, x) # Raise401 =>
                get_user_by_email(users, decode_refresh_token(t, x)) # NoUser)
    /\ [][\A u \in users :
            \E v \in users' : v.id = u.id /\ v.email = u.email]_vars

C18_Witness ==
    \E t \in h_rotated, t2 \in issued :
        /\ t2.scope = "refresh_token" /\ t2.sub = t.sub /\ t2 # t
        /\ UserOf(t.sub).refresh_token = NoToken
        /\ Cardinality(users) = 2
====
